---- MODULE Spec2Model ----
(***************************************************************************)
(* A model of glambox/simulation.py: the trial simulator simulate_trial    *)
(* (error mixture + race with a resampling loop), the evidence-rate model  *)
(* make_R, the subject driver simulate_subject and the posterior           *)
(* predictive generator predict.                                           *)
(*                                                                         *)
(* Floating-point numbers are records [k, n]: a finite value on an integer *)
(* grid, +inf/-inf, or NaN, with IEEE rules for the operations the code    *)
(* performs on them.                                                       *)
(***************************************************************************)
EXTENDS Integers, Sequences, FiniteSets, TLC

\* ------------------------------------------------------------------------
\* Bounds of the model
\* ------------------------------------------------------------------------

\* simulate_subject and predict are called on inputs for which they make at
\* most MaxRows calls of simulate_trial (rows of the table they return).
MaxRows == 4

\* The number of rejected draws of one trial is counted up to MaxDraws.
MaxDraws == 2

\* ------------------------------------------------------------------------
\* Floating point
\* ------------------------------------------------------------------------

NaN == [k |-> "nan", n |-> 0]
PosInf == [k |-> "inf", n |-> 1]
NegInf == [k |-> "inf", n |-> -1]
Fin(x) == [k |-> "fin", n |-> x]

\* np.isnan
isnan(x) == x.k = "nan"

\* np.isfinite
isfinite(x) == x.k = "fin"

Sign(i) == IF i > 0 THEN 1 ELSE IF i < 0 THEN -1 ELSE 0

\* a < b on floats: False as soon as one side is NaN.
FLt(a, b) ==
    IF isnan(a) \/ isnan(b) THEN FALSE
    ELSE IF a.k = "inf" /\ b.k = "inf" THEN a.n < b.n
    ELSE IF a.k = "inf" THEN a.n < 0
    ELSE IF b.k = "inf" THEN b.n > 0
    ELSE a.n < b.n

FLe(a, b) == FLt(a, b) \/ (~isnan(a) /\ a = b)

\* a + b on floats.
FAdd(a, b) ==
    IF isnan(a) \/ isnan(b) THEN NaN
    ELSE IF a.k = "inf" /\ b.k = "inf" THEN (IF a.n = b.n THEN a ELSE NaN)
    ELSE IF a.k = "inf" THEN a
    ELSE IF b.k = "inf" THEN b
    ELSE Fin(a.n + b.n)

\* a * b on floats.
FMul(a, b) ==
    IF isnan(a) \/ isnan(b) THEN NaN
    ELSE IF a.k = "fin" /\ b.k = "fin" THEN Fin(a.n * b.n)
    ELSE IF Sign(a.n) * Sign(b.n) = 0 THEN NaN
    ELSE IF Sign(a.n) * Sign(b.n) > 0 THEN PosInf ELSE NegInf

FNeg(a) == IF isnan(a) THEN NaN ELSE [k |-> a.k, n |-> 0 - a.n]

FSub(a, b) == FAdd(a, FNeg(b))

\* Mutant of FMinSet: np.nanmin, which leaves the NaN elements out (NaN when
\* every element is NaN).
FMinSet_NanMin(S) ==
    LET numbers == {x \in S : ~isnan(x)}
    IN  IF numbers = {} THEN NaN
        ELSE CHOOSE x \in numbers : \A y \in numbers : FLe(x, y)

\* np.min / ndarray.min over a non-empty set of floats: NaN as soon as one
\* element is NaN.
FMinSet(S) ==
    IF \E x \in S : isnan(x) THEN NaN
    ELSE CHOOSE x \in S : \A y \in S : FLe(x, y)

\* np.max over a non-empty set of floats, NaN propagating likewise.
FMaxSet(S) ==
    IF \E x \in S : isnan(x) THEN NaN
    ELSE CHOOSE x \in S : \A y \in S : FLe(y, x)

\* The elements of a sequence (0-based arrays are sequences, element i of the
\* array at position i + 1).
Range(seq) == {seq[j] : j \in DOMAIN seq}

At(seq, i) == seq[i + 1]

\* The sign class of a float, for the quantities of which only the class
\* decides what happens.
Cls(x) ==
    IF isnan(x) THEN "nan"
    ELSE IF x.k = "inf" THEN (IF x.n > 0 THEN "pinf" ELSE "ninf")
    ELSE IF x.n > 0 THEN "pos" ELSE IF x.n < 0 THEN "neg" ELSE "zero"

ClsSign(c) ==
    IF c \in {"pos", "pinf"} THEN 1 ELSE IF c \in {"neg", "ninf"} THEN -1 ELSE 0

ClsInf(c) == c \in {"pinf", "ninf"}

\* a / b on classes, numpy's float64 division (x / 0 is an infinity).
ClsDiv(a, b) ==
    IF a = "nan" \/ b = "nan" THEN "nan"
    ELSE IF ClsInf(a) /\ ClsInf(b) THEN "nan"
    ELSE IF a = "zero" /\ b = "zero" THEN "nan"
    ELSE IF a = "zero" \/ ClsInf(b) THEN "zero"
    ELSE IF ClsInf(a) \/ b = "zero"
         THEN (IF ClsSign(a) * (IF b = "zero" THEN 1 ELSE ClsSign(b)) > 0
               THEN "pinf" ELSE "ninf")
    ELSE IF ClsSign(a) * ClsSign(b) > 0 THEN "pos" ELSE "neg"

\* a ** 2 on classes.
ClsSq(a) ==
    IF a = "nan" THEN "nan"
    ELSE IF ClsInf(a) THEN "pinf"
    ELSE IF a = "zero" THEN "zero" ELSE "pos"

\* ------------------------------------------------------------------------
\* make_R: the evidence-rate model
\* ------------------------------------------------------------------------

\* The constant 1. of `(1. - gaze)`: gaze and gamma are given in halves, so
\* 1.0 is 2 on their grid (and A, R_star are in quarters).
One == 2

Items(values) == 0 .. (Len(values) - 1)

\* A = gaze * values + (1. - gaze) * gamma * values, for item i.
MakeA(gamma, values, gaze, i) ==
    FAdd(Fin(At(gaze, i) * At(values, i) * One),
         FMul(FMul(Fin(One - At(gaze, i)), gamma), Fin(At(values, i))))

\* Mutant of RStar: every item compared with the maximum over all the items,
\* itself included.
RStar_GlobalMax(gamma, values, gaze, i) ==
    FSub(MakeA(gamma, values, gaze, i),
         FMaxSet({MakeA(gamma, values, gaze, j) : j \in Items(values)}))

\* R_star[i] = A[i] - np.max(A[others]), others the items other than i.
RStar(gamma, values, gaze, i) ==
    FSub(MakeA(gamma, values, gaze, i),
         FMaxSet({MakeA(gamma, values, gaze, j) : j \in Items(values) \ {i}}))

\* R = v / (1 + np.exp(-tau * R_star)), element i. The logistic is kept as
\* the pair (num, logit) = (v, tau * R_star[i]) and stands for
\* num / (1 + exp(-logit)).
make_R(v, tau, gamma, values, gaze) ==
    [j \in 1 .. Len(values) |->
        [num |-> v, logit |-> FMul(tau, RStar(gamma, values, gaze, j - 1))]]

\* The class of 1 + np.exp(-logit).
DenomCls(logit) ==
    IF isnan(logit) THEN "nan"
    ELSE IF logit.k = "inf" THEN (IF logit.n > 0 THEN "pos" ELSE "pinf")
    ELSE "pos"

\* The class of a rate num / (1 + exp(-logit)).
RateCls(rate) == ClsDiv(Cls(rate.num), DenomCls(rate.logit))

\* ------------------------------------------------------------------------
\* The first-passage sampler, invgauss.rvs(mu=mu / lam, scale=lam)
\* ------------------------------------------------------------------------

\* The sampler raising instead of returning a number.
Raise == [k |-> "raise", n |-> 0]

\* What the sampler returns for arguments inside its domain: a time on the
\* grid, which rounding can make negative or zero and overflow infinite.
SampledTimes == {Fin(-1), Fin(0), Fin(1), PosInf}

\* The outcomes of one invgauss.rvs(mu=arg, scale=lam) call. Outside the
\* domain (mean not a positive finite number, scale not positive finite) the
\* library either rejects the arguments (ValueError) or returns NaN.
InvGaussRvs(arg, lam) ==
    IF arg = "pos" /\ lam = "pos" THEN SampledTimes ELSE {NaN, Raise}

\* mu = boundary / R[i]; lam = (boundary / s)**2;
\* FPTs[i] = invgauss.rvs(mu=mu / lam, scale=lam): the possible outcomes.
FirstPassage(boundary, rate, s) ==
    LET mu == ClsDiv(Cls(boundary), RateCls(rate))
        lam == ClsSq(ClsDiv(Cls(boundary), Cls(s)))
    IN  InvGaussRvs(ClsDiv(mu, lam), lam)

\* Mutant of ArgMin: the last index of the minimum instead of the first.
ArgMin_LastIndex(fpts) ==
    CHOOSE i \in Items(fpts) :
        /\ At(fpts, i) = FMinSet(Range(fpts))
        /\ \A j \in Items(fpts) : At(fpts, j) = FMinSet(Range(fpts)) => j <= i

\* np.argmin(FPTs): the first index of the minimum.
ArgMin(fpts) ==
    CHOOSE i \in Items(fpts) :
        /\ At(fpts, i) = FMinSet(Range(fpts))
        /\ \A j \in Items(fpts) : At(fpts, j) = FMinSet(Range(fpts)) => i <= j

\* np.random.uniform(low, high): a point of [low, high) on the grid (of
\* (high, low] when the bounds are swapped, low itself when they are equal),
\* NaN when a bound is NaN. The bounds enumerated are finite or NaN.
Uniform(low, high) ==
    IF isnan(low) \/ isnan(high) THEN {NaN}
    ELSE IF low.n < high.n THEN {Fin(x) : x \in low.n .. (high.n - 1)}
    ELSE IF low.n > high.n THEN {Fin(x) : x \in (high.n + 1) .. low.n}
    ELSE {low}

\* np.random.uniform(0, 1) in halves, against error_weight in halves
\* (0, 1, 2 for 0.0, 0.5, 1.0).
UnitDraws == {0, 1}

\* ------------------------------------------------------------------------
\* State
\* ------------------------------------------------------------------------

VARIABLES
    mode,     \* the entry point called: "trial", "subject" or "predict"
    pc,       \* where the program is
    inp,      \* the entry point's arguments
    arg,      \* the arguments of the simulate_trial call in progress
    rt,       \* simulate_trial's rt
    choice,   \* simulate_trial's choice
    FPTs,     \* simulate_trial's FPTs of the last draw
    draws,    \* iterations of the race loop made by the call in progress
    loc,      \* the locals of simulate_subject or predict
    result,   \* what the entry point returned
    calls,    \* the simulate_trial calls made so far, with their arguments
    err       \* the exception that ended the program, "none" without one

vars == <<mode, pc, inp, arg, rt, choice, FPTs, draws, loc, result, calls, err>>

\* A frame that does not exist: no call in progress, no locals.
NoArg == [parameters |-> <<>>, values |-> <<>>, gaze |-> <<>>,
          boundary |-> NaN, error_weight |-> 0, error_range |-> <<>>]

NoLoc == [running_idx |-> 0]

\* ------------------------------------------------------------------------
\* simulate_trial
\* ------------------------------------------------------------------------

\* v, gamma, s, tau, t0 = parameters
P_v(parameters) == parameters[1]
P_gamma(parameters) == parameters[2]
P_s(parameters) == parameters[3]
P_tau(parameters) == parameters[4]
P_t0(parameters) == parameters[5]

\* All the vectors whose element j is drawn from sets[j].
RECURSIVE Vectors(_)
Vectors(sets) ==
    IF sets = <<>> THEN {<<>>}
    ELSE LET n == Len(sets)
             heads == Vectors(SubSeq(sets, 1, n - 1))
         IN  {Append(h, x) : h \in heads, x \in sets[n]}

\* One pass of the for loop over the items: the vectors of first-passage
\* outcomes the sampler can produce for this call.
DrawFPTs(a) ==
    LET R == make_R(P_v(a.parameters), P_tau(a.parameters),
                    P_gamma(a.parameters), a.values, a.gaze)
    IN  Vectors([j \in 1 .. Len(a.values) |->
                    FirstPassage(a.boundary, R[j], P_s(a.parameters))])

\* Mutant of Accepted: `rt < 0` left out of the test of line 97.
Accepted_NoSignTest(m) == isfinite(m)

\* The test of line 97 on rt = np.min(FPTs), negated: the draw is kept.
Accepted(m) == ~(FLt(m, Fin(0)) \/ ~isfinite(m))

\* Mutant of RaceResult: t0 subtracted instead of added.
RaceResult_SubtractsT0(fpts, t0) ==
    LET m == FMinSet(Range(fpts))
    IN  IF ~Accepted(m)
        THEN [rt |-> NaN, choice |-> NaN]
        ELSE [rt |-> FSub(m, t0), choice |-> Fin(ArgMin(fpts))]

\* Mutant of RaceResult: `rt = np.nan` of line 98 left out, so that a
\* rejected minimum that is a number ends the loop.
RaceResult_KeepsRt(fpts, t0) ==
    LET m == FMinSet(Range(fpts))
    IN  IF ~Accepted(m)
        THEN [rt |-> m, choice |-> NaN]
        ELSE [rt |-> FAdd(m, t0), choice |-> Fin(ArgMin(fpts))]

\* The body of the while loop after the draws: rt = np.min(FPTs), then
\* either the draw is rejected (rt, choice = nan) or choice = argmin and
\* t0 is added.
RaceResult(fpts, t0) ==
    LET m == FMinSet(Range(fpts))
    IN  IF ~Accepted(m)
        THEN [rt |-> NaN, choice |-> NaN]
        ELSE [rt |-> FAdd(m, t0), choice |-> Fin(ArgMin(fpts))]

\* Mutant of SimulateTrialError: t0 added to the error response time, as it
\* is to the time of the race.
SimulateTrialError_AddsT0 ==
    /\ pc = "trial"
    /\ \E u \in UnitDraws : u < arg.error_weight
    /\ \E x \in Uniform(arg.error_range[1], arg.error_range[2]) :
            rt' = FAdd(x, P_t0(arg.parameters))
    /\ \E c \in Items(arg.values) : choice' = Fin(c)
    /\ pc' = "ret"
    /\ UNCHANGED <<mode, inp, arg, FPTs, draws, loc, result, calls, err>>

\* if np.random.uniform(0, 1) < error_weight: the error branch.
SimulateTrialError ==
    /\ pc = "trial"
    /\ \E u \in UnitDraws : u < arg.error_weight
    /\ \E x \in Uniform(arg.error_range[1], arg.error_range[2]) : rt' = x
    /\ \E c \in Items(arg.values) : choice' = Fin(c)
    /\ pc' = "ret"
    /\ UNCHANGED <<mode, inp, arg, FPTs, draws, loc, result, calls, err>>

\* else: rt = np.nan, and the while loop is entered.
SimulateTrialRace ==
    /\ pc = "trial"
    /\ \E u \in UnitDraws : ~(u < arg.error_weight)
    /\ rt' = NaN
    /\ pc' = "race"
    /\ UNCHANGED <<mode, inp, arg, choice, FPTs, draws, loc, result, calls, err>>

\* One iteration of `while np.isnan(rt)`: a draw for every item, the test
\* of the minimum, and the loop condition evaluated again. The sampler
\* raising ends the program.
RaceIteration ==
    /\ pc = "race"
    /\ isnan(rt)
    /\ \E fpts \in DrawFPTs(arg) :
        IF Raise \in Range(fpts)
        THEN /\ err' = "ValueError"
             /\ pc' = "raised"
             /\ UNCHANGED <<rt, choice, FPTs, draws>>
        ELSE /\ FPTs' = fpts
             /\ \E res \in {RaceResult(fpts, P_t0(arg.parameters))} :
                    rt' = res.rt /\ choice' = res.choice
             /\ draws' = IF draws < MaxDraws THEN draws + 1 ELSE draws
             /\ pc' = IF isnan(rt') THEN "race" ELSE "ret"
             /\ err' = err
    /\ UNCHANGED <<mode, inp, arg, loc, result, calls>>

\* simulate_trial called on its own: return choice, rt.
TrialReturn ==
    /\ mode = "trial"
    /\ pc = "ret"
    /\ result' = <<[choice |-> choice, rt |-> rt]>>
    /\ pc' = "done"
    /\ UNCHANGED <<mode, inp, arg, rt, choice, FPTs, draws, loc, calls, err>>

\* ------------------------------------------------------------------------
\* Tables
\* ------------------------------------------------------------------------

\* 'item_value_{}'.format(i) and 'gaze_{}'.format(i)
ValueCol(i) ==
    CASE i = 0 -> "item_value_0" [] i = 1 -> "item_value_1"
      [] i = 2 -> "item_value_2"

GazeCol(i) ==
    CASE i = 0 -> "gaze_0" [] i = 1 -> "gaze_1" [] i = 2 -> "gaze_2"

\* np.zeros(n) * np.nan
NanArray(n) == [j \in 1 .. n |-> NaN]

\* Mutant of NpRepeat: np.tile, the whole column n_repeats times over.
NpRepeat_Tiles(column, n_repeats) ==
    [j \in 1 .. (Len(column) * n_repeats) |->
        column[((j - 1) % Len(column)) + 1]]

\* np.repeat(column, n_repeats): every element n_repeats times in a row.
NpRepeat(column, n_repeats) ==
    [j \in 1 .. (Len(column) * n_repeats) |->
        column[((j - 1) \div n_repeats) + 1]]

\* values[:, i]
Column(matrix, i) == [t \in 1 .. Len(matrix) |-> At(matrix[t], i)]

\* ------------------------------------------------------------------------
\* simulate_subject
\* ------------------------------------------------------------------------

\* The position after (trial, repeat) in
\* `for trial in range(n_trials): for repeat in range(n_repeats)`.
AdvanceTrial(trial, repeat, n_repeats) ==
    IF repeat + 1 < n_repeats THEN trial ELSE trial + 1

AdvanceRepeat(trial, repeat, n_repeats) ==
    IF repeat + 1 < n_repeats THEN repeat + 1 ELSE 0

\* The loops have an iteration left.
SubjectLoopRuns == loc.trial < Len(inp.values) /\ inp.n_repeats > 0

\* The call of lines 29-34.
SubjectArg(in, trial) ==
    [parameters |-> in.parameters, values |-> in.values[trial + 1],
     gaze |-> in.gaze[trial + 1], boundary |-> in.boundary,
     error_weight |-> in.error_weight, error_range |-> in.error_range]

SubjectCall ==
    /\ mode = "subject"
    /\ pc = "subject"
    /\ SubjectLoopRuns
    /\ arg' = SubjectArg(inp, loc.trial)
    /\ calls' = Append(calls, [trial |-> loc.trial, repeat |-> loc.repeat,
                               arg |-> arg', ret |-> <<>>])
    /\ pc' = "trial"
    /\ UNCHANGED <<mode, inp, rt, choice, FPTs, draws, loc, result, err>>

\* Lines 36-41, and the loops stepping on: the call has returned.
SubjectStore ==
    /\ mode = "subject"
    /\ pc = "ret"
    /\ loc' = [loc EXCEPT
                !.rts[loc.running_idx + 1] = rt,
                !.choices[loc.running_idx + 1] = choice,
                !.trial_idx[loc.running_idx + 1] = Fin(loc.trial),
                !.repeat_idx[loc.running_idx + 1] = Fin(loc.repeat),
                !.running_idx = loc.running_idx + 1,
                !.trial = AdvanceTrial(loc.trial, loc.repeat, inp.n_repeats),
                !.repeat = AdvanceRepeat(loc.trial, loc.repeat, inp.n_repeats)]
    /\ calls' = [calls EXCEPT ![Len(calls)].ret = <<choice, rt>>]
    /\ arg' = NoArg
    /\ rt' = NaN /\ choice' = NaN /\ FPTs' = <<>> /\ draws' = 0
    /\ pc' = "subject"
    /\ UNCHANGED <<mode, inp, result, err>>

\* The columns of the table simulate_subject returns.
SubjectColumns(n_items) ==
    {"subject", "trial", "repeat", "choice", "rt"}
    \cup {ValueCol(i) : i \in 0 .. (n_items - 1)}
    \cup {GazeCol(i) : i \in 0 .. (n_items - 1)}

\* Lines 43-52: the DataFrame, as the sequence of its rows.
SubjectFrame(in, l) ==
    LET n_items == Len(in.values[1])
        n == Len(in.values) * in.n_repeats
    IN  [j \in 1 .. n |->
          [c \in SubjectColumns(n_items) |->
            CASE c = "subject" -> Fin(in.subject)
              [] c = "trial" -> l.trial_idx[j]
              [] c = "repeat" -> l.repeat_idx[j]
              [] c = "choice" -> l.choices[j]
              [] c = "rt" -> l.rts[j]
              [] c \in {ValueCol(i) : i \in 0 .. (n_items - 1)} ->
                    LET i == CHOOSE i \in 0 .. (n_items - 1) : ValueCol(i) = c
                    IN  Fin(NpRepeat(Column(in.values, i), in.n_repeats)[j])
              [] OTHER ->
                    LET i == CHOOSE i \in 0 .. (n_items - 1) : GazeCol(i) = c
                    IN  Fin(NpRepeat(Column(in.gaze, i), in.n_repeats)[j])]]

SubjectReturn ==
    /\ mode = "subject"
    /\ pc = "subject"
    /\ ~SubjectLoopRuns
    /\ result' = SubjectFrame(inp, loc)
    /\ pc' = "done"
    /\ UNCHANGED <<mode, inp, arg, rt, choice, FPTs, draws, loc, calls, err>>

\* ------------------------------------------------------------------------
\* predict
\* ------------------------------------------------------------------------

\* enumerate(['v', 'gamma', 's', 'tau', 't0'])
ParameterNames == <<"v", "gamma", "s", "tau", "t0">>

\* Mutant of SubjectEstimates: the estimates of all the subjects.
SubjectEstimates_AllSubjects(estimates, subject) == estimates

\* model.estimates[model.estimates['subject'] == subject]
SubjectEstimates(estimates, subject) ==
    SelectSeq(estimates, LAMBDA e : e.subject = subject)

\* The estimates one parameter of one trial is read from: with a dependence,
\* subject_estimates.loc[subject_estimates[dependence] == condition], and
\* without one all of subject_estimates.
ParameterRows(m, row, parameter) ==
    LET subject_estimates == SubjectEstimates(m.estimates, row.subject)
    IN  IF parameter \in DOMAIN m.depends_on
        THEN SelectSeq(subject_estimates,
                 LAMBDA e : e[m.depends_on[parameter]]
                                = row[m.depends_on[parameter]])
        ELSE subject_estimates

\* Mutant of ResolveParameter: an empty selection leaves the NaN the array
\* was created with.
ResolveParameter_LeavesNaN(m, row, parameter) ==
    LET rows == ParameterRows(m, row, parameter)
    IN  IF rows = <<>> THEN NaN ELSE rows[1][parameter]

\* parameters[p] = <the selection>.head(1): the first row's value. Storing an
\* empty selection into the element of the array raises (numpy's
\* "setting an array element with a sequence").
ResolveParameter(m, row, parameter) ==
    LET rows == ParameterRows(m, row, parameter)
    IN  IF rows = <<>> THEN Raise ELSE rows[1][parameter]

\* Lines 154-163: the parameter vector of a trial.
ResolveParameters(m, row) ==
    [p \in 1 .. 5 |-> ResolveParameter(m, row, ParameterNames[p])]

\* Mutant of ErrorRange: the minimum and maximum over all of model.data['rt'].
ErrorRange_AllSubjects(data, subject) ==
    LET rts == {data[j].rt : j \in DOMAIN data}
    IN  <<FMinSet(rts), FMaxSet(rts)>>

\* Lines 166-170: (rt_min, rt_max) over model.data['rt'][model.data['subject']
\* == subject].
ErrorRange(data, subject) ==
    LET rts == {data[j].rt : j \in {x \in DOMAIN data : data[x].subject = subject}}
    IN  <<FMinSet(rts), FMaxSet(rts)>>

\* row[value_cols].values and row[gaze_cols].values
RowValues(row, n_items) == [j \in 1 .. n_items |-> row[ValueCol(j - 1)]]

RowGaze(row, n_items) == [j \in 1 .. n_items |-> row[GazeCol(j - 1)]]

\* Lines 147-173: the next observed row is read, its parameters resolved and
\* its error range computed.
PredictRow ==
    /\ mode = "predict"
    /\ pc = "predict"
    /\ loc.row_index < Len(inp.model.data)
    /\ LET row == inp.model.data[loc.row_index + 1]
           parameters == ResolveParameters(inp.model, row)
       IN  IF Raise \in Range(parameters)
           THEN /\ err' = "ValueError"
                /\ pc' = "raised"
                /\ loc' = [loc EXCEPT !.row = row]
           ELSE /\ loc' = [loc EXCEPT
                            !.row = row,
                            !.parameters = parameters,
                            !.error_range =
                                ErrorRange(inp.model.data, row.subject),
                            !.values = RowValues(row, inp.model.n_items),
                            !.gaze = RowGaze(row, inp.model.n_items),
                            !.r = 0]
                /\ pc' = "repeat"
                /\ err' = err
    /\ UNCHANGED <<mode, inp, arg, rt, choice, FPTs, draws, result, calls>>

\* The call of lines 176-181.
PredictArg(in, l) ==
    [parameters |-> l.parameters, values |-> l.values, gaze |-> l.gaze,
     boundary |-> in.boundary, error_weight |-> in.error_weight,
     error_range |-> l.error_range]

PredictCall ==
    /\ mode = "predict"
    /\ pc = "repeat"
    /\ loc.r < inp.n_repeats
    /\ arg' = PredictArg(inp, loc)
    /\ calls' = Append(calls, [trial |-> loc.row_index, repeat |-> loc.r,
                               arg |-> arg', ret |-> <<>>])
    /\ pc' = "trial"
    /\ UNCHANGED <<mode, inp, rt, choice, FPTs, draws, loc, result, err>>

\* Mutant of PredRow: the observed choice is left in the row.
PredRow_KeepsObservedChoice(row, c, t, r) ==
    [col \in DOMAIN row \cup {"repeat"} |->
        CASE col = "rt" -> t
          [] col = "repeat" -> r
          [] OTHER -> row[col]]

\* Lines 182-185: pred_row = row.copy() with choice, rt and repeat set.
PredRow(row, c, t, r) ==
    [col \in DOMAIN row \cup {"repeat"} |->
        CASE col = "choice" -> c
          [] col = "rt" -> t
          [] col = "repeat" -> r
          [] OTHER -> row[col]]

\* Mutant of PredictAppend: pred_row is the row of model.data itself, not a
\* copy, so that choice and rt are written into the observed table.
PredictAppend_WritesData ==
    /\ mode = "predict"
    /\ pc = "ret"
    /\ loc' = [loc EXCEPT
                !.prediction =
                    Append(loc.prediction, PredRow(loc.row, choice, rt, loc.r)),
                !.r = loc.r + 1]
    /\ inp' = [inp EXCEPT
                !.model.data[loc.row_index + 1].choice = choice,
                !.model.data[loc.row_index + 1].rt = rt]
    /\ calls' = [calls EXCEPT ![Len(calls)].ret = <<choice, rt>>]
    /\ arg' = NoArg
    /\ rt' = NaN /\ choice' = NaN /\ FPTs' = <<>> /\ draws' = 0
    /\ pc' = "repeat"
    /\ UNCHANGED <<mode, result, err>>

\* Lines 182-187: the call has returned; its row is appended.
PredictAppend ==
    /\ mode = "predict"
    /\ pc = "ret"
    /\ loc' = [loc EXCEPT
                !.prediction =
                    Append(loc.prediction, PredRow(loc.row, choice, rt, loc.r)),
                !.r = loc.r + 1]
    /\ calls' = [calls EXCEPT ![Len(calls)].ret = <<choice, rt>>]
    /\ arg' = NoArg
    /\ rt' = NaN /\ choice' = NaN /\ FPTs' = <<>> /\ draws' = 0
    /\ pc' = "repeat"
    /\ UNCHANGED <<mode, inp, result, err>>

\* `for r in range(n_repeats)` is over: on to the next observed row.
PredictNextRow ==
    /\ mode = "predict"
    /\ pc = "repeat"
    /\ ~(loc.r < inp.n_repeats)
    /\ loc' = [loc EXCEPT !.row_index = loc.row_index + 1]
    /\ pc' = "predict"
    /\ UNCHANGED <<mode, inp, arg, rt, choice, FPTs, draws, result, calls, err>>

\* return prediction
PredictReturn ==
    /\ mode = "predict"
    /\ pc = "predict"
    /\ ~(loc.row_index < Len(inp.model.data))
    /\ result' = loc.prediction
    /\ pc' = "done"
    /\ UNCHANGED <<mode, inp, arg, rt, choice, FPTs, draws, loc, calls, err>>

\* ------------------------------------------------------------------------
\* Inputs
\* ------------------------------------------------------------------------

\* Item values and gaze (in halves) of one trial, two or three items.
TrialStimuli ==
    ({<<1, 1>>, <<2, 1>>} \X {<<1, 1>>, <<2, 0>>})
    \cup ({<<1, 2, 2>>, <<3, 1, 2>>} \X {<<0, 1, 1>>})

\* A parameter vector (v, gamma, s, tau, t0) inside the model's domain.
ValidParameters ==
    {Fin(1)} \X {Fin(0), Fin(One)} \X {Fin(1)} \X {Fin(0), Fin(1)}
             \X {Fin(0), Fin(2)}

BaseParameters == <<Fin(1), Fin(One), Fin(1), Fin(1), Fin(2)>>

\* Parameter vectors outside it: one entry of the base vector not finite,
\* a zero or negative drift gain, a negative t0.
DegenerateParameters ==
    {[BaseParameters EXCEPT ![p] = x] :
        p \in 1 .. 5, x \in {NaN, PosInf, NegInf}}
    \cup {[BaseParameters EXCEPT ![1] = Fin(0)],
          [BaseParameters EXCEPT ![1] = Fin(-1)],
          [BaseParameters EXCEPT ![5] = Fin(-1)]}

ErrorWeights == {0, 1, 2}

ErrorRanges == {<<Fin(0), Fin(2)>>, <<Fin(-1), Fin(1)>>, <<NaN, NaN>>}

InitTrial ==
    /\ mode = "trial"
    /\ pc = "trial"
    /\ \E st \in TrialStimuli,
          ps \in ValidParameters \cup DegenerateParameters,
          ew \in ErrorWeights, er \in ErrorRanges :
        arg = [parameters |-> ps, values |-> st[1], gaze |-> st[2],
               boundary |-> Fin(1), error_weight |-> ew, error_range |-> er]
    /\ inp = arg
    /\ rt = NaN /\ choice = NaN /\ FPTs = <<>> /\ draws = 0
    /\ loc = NoLoc
    /\ result = <<>>
    /\ calls = <<>>
    /\ err = "none"

\* The values and gaze matrices of a subject: one to three two-item trials.
SubjectStimuli ==
    { << <<<<2, 1>>>>, <<<<2, 0>>>> >>,
      << <<<<2, 1>>, <<1, 1>>>>, <<<<2, 0>>, <<1, 1>>>> >>,
      << <<<<1, 1>>, <<1, 2>>, <<2, 1>>>>, <<<<1, 1>>, <<0, 2>>, <<2, 0>>>> >> }

InitSubject ==
    /\ mode = "subject"
    /\ pc = "subject"
    /\ \E st \in SubjectStimuli, n_repeats \in 0 .. MaxRows,
          ps \in {BaseParameters}, ew \in {0, 2} :
        /\ Len(st[1]) * n_repeats <= MaxRows
        /\ inp = [parameters |-> ps, values |-> st[1], gaze |-> st[2],
                  n_repeats |-> n_repeats, subject |-> 3,
                  boundary |-> Fin(1), error_weight |-> ew,
                  error_range |-> <<Fin(0), Fin(1)>>]
        /\ loc = [rts |-> NanArray(Len(st[1]) * n_repeats),
                  choices |-> NanArray(Len(st[1]) * n_repeats),
                  trial_idx |-> NanArray(Len(st[1]) * n_repeats),
                  repeat_idx |-> NanArray(Len(st[1]) * n_repeats),
                  running_idx |-> 0, trial |-> 0, repeat |-> 0]
    /\ arg = NoArg
    /\ rt = NaN /\ choice = NaN /\ FPTs = <<>> /\ draws = 0
    /\ result = <<>>
    /\ calls = <<>>
    /\ err = "none"

\* An observed trial: a row of model.data.
DataRow(subject, trial, cond, observed_rt, vals, gz) ==
    [subject |-> subject, trial |-> trial, cond |-> cond,
     rt |-> Fin(observed_rt), choice |-> Fin(0),
     item_value_0 |-> vals[1], item_value_1 |-> vals[2],
     gaze_0 |-> gz[1], gaze_1 |-> gz[2]]

\* Observed-trials tables: one subject in two conditions; two subjects, the
\* rows of the first apart; a single trial.
DataTables ==
    { << DataRow(0, 0, 0, 1, <<2, 1>>, <<2, 0>>),
         DataRow(0, 1, 1, 2, <<1, 1>>, <<1, 1>>) >>,
      << DataRow(0, 0, 0, 1, <<2, 1>>, <<2, 0>>),
         DataRow(1, 0, 0, 3, <<1, 2>>, <<1, 1>>),
         DataRow(0, 1, 1, 2, <<1, 1>>, <<0, 2>>) >>,
      << DataRow(1, 0, 1, 3, <<1, 2>>, <<1, 1>>) >> }

\* A row of model.estimates: v differs between the conditions and t0
\* between the subjects.
EstimateRow(subject, cond) ==
    [subject |-> subject, cond |-> cond, v |-> Fin(1 + cond),
     gamma |-> Fin(One), s |-> Fin(1), tau |-> Fin(1), t0 |-> Fin(2 + subject)]

\* Estimates tables: complete; subject 0 without an estimate for condition
\* 1; no estimate for subject 1.
EstimateTables ==
    { << EstimateRow(0, 0), EstimateRow(0, 1),
         EstimateRow(1, 0), EstimateRow(1, 1) >>,
      << EstimateRow(0, 0), EstimateRow(1, 0), EstimateRow(1, 1) >>,
      << EstimateRow(0, 0), EstimateRow(0, 1) >> }

\* model.depends_on: no dependence, or v on the condition.
DependencyMaps == { [x \in {} |-> "cond"], [x \in {"v"} |-> "cond"] }

InitPredict ==
    /\ mode = "predict"
    /\ pc = "predict"
    /\ \E data \in DataTables, estimates \in EstimateTables,
          depends_on \in DependencyMaps, n_repeats \in 0 .. MaxRows,
          ew \in {0, 2} :
        /\ Len(data) * n_repeats <= MaxRows
        /\ inp = [model |-> [data |-> data, estimates |-> estimates,
                             depends_on |-> depends_on, n_items |-> 2],
                  n_repeats |-> n_repeats, boundary |-> Fin(1),
                  error_weight |-> ew]
    /\ loc = [prediction |-> <<>>, row_index |-> 0, row |-> <<>>,
              parameters |-> <<>>, error_range |-> <<>>, values |-> <<>>,
              gaze |-> <<>>, r |-> 0]
    /\ arg = NoArg
    /\ rt = NaN /\ choice = NaN /\ FPTs = <<>> /\ draws = 0
    /\ result = <<>>
    /\ calls = <<>>
    /\ err = "none"

Init == InitTrial \/ InitSubject \/ InitPredict

\* simulate_trial called on its own.
TrialNext ==
    \/ SimulateTrialError
    \/ SimulateTrialRace
    \/ RaceIteration
    \/ TrialReturn

\* simulate_subject and the calls it makes.
SubjectNext ==
    \/ SimulateTrialError
    \/ SimulateTrialRace
    \/ RaceIteration
    \/ SubjectCall
    \/ SubjectStore
    \/ SubjectReturn

\* predict and the calls it makes.
PredictNext ==
    \/ SimulateTrialError
    \/ SimulateTrialRace
    \/ RaceIteration
    \/ PredictRow
    \/ PredictCall
    \/ PredictAppend
    \/ PredictNextRow
    \/ PredictReturn

Next ==
    \/ SimulateTrialError
    \/ SimulateTrialRace
    \/ RaceIteration
    \/ TrialReturn
    \/ SubjectCall
    \/ SubjectStore
    \/ SubjectReturn
    \/ PredictRow
    \/ PredictCall
    \/ PredictAppend
    \/ PredictNextRow
    \/ PredictReturn

SpecTrial == InitTrial /\ [][TrialNext]_vars

SpecSubject == InitSubject /\ [][SubjectNext]_vars

SpecPredict == InitPredict /\ [][PredictNext]_vars

Spec == Init /\ [][Next]_vars

\* ------------------------------------------------------------------------
\* Properties
\* ------------------------------------------------------------------------

\* A response time that is a finite non-negative number, or missing (NaN).
RtOk(x) == isnan(x) \/ (isfinite(x) /\ x.n >= 0)

\* The arguments of the call that produced row j of the returned table.
RowArg(j) == IF mode = "trial" THEN arg ELSE calls[j].arg

\* t0 is a finite non-negative number and the bounds of error_range are
\* finite non-negative numbers or missing.
NonNegativeTimes(a) ==
    /\ isfinite(P_t0(a.parameters)) /\ P_t0(a.parameters).n >= 0
    /\ \A b \in Range(a.error_range) : RtOk(b)

AllFinite(parameters) == \A p \in 1 .. 5 : isfinite(parameters[p])

\* C1 as stated: whatever the parameters, error_weight and error_range, the
\* rt simulate_trial returns, and the rt of every row of the table
\* simulate_trial, simulate_subject or predict returns, is a finite
\* non-negative number or missing.
C1_RtNonNegativeForAnyInput ==
    /\ pc = "ret" => RtOk(rt)
    /\ pc = "done" => \A j \in DOMAIN result : RtOk(result[j].rt)

\* C1 amended: when t0 is finite and non-negative and the bounds of
\* error_range are finite non-negative or missing, the rt simulate_trial
\* returns, and the rt of every row of the table simulate_trial,
\* simulate_subject or predict returns, is a finite non-negative number or
\* missing.
C1_RtNonNegative ==
    /\ (pc = "ret" /\ NonNegativeTimes(arg)) => RtOk(rt)
    /\ pc = "done" =>
         \A j \in DOMAIN result :
            NonNegativeTimes(RowArg(j)) => RtOk(result[j].rt)

\* A table of two or more rows returned by predict, with a row of the race
\* branch (t0 added to a minimum) in it.
C1_Witness ==
    /\ pc = "done" /\ mode = "predict" /\ Len(result) >= 2
    /\ \A j \in DOMAIN result : NonNegativeTimes(RowArg(j))
    /\ \E j \in DOMAIN result :
         /\ RowArg(j).error_weight = 0
         /\ result[j].rt = FAdd(Fin(1), P_t0(RowArg(j).parameters))

\* C2: with error_weight = 0 the error branch is not taken (the call returns
\* from the race loop, after at least one draw), and with all five
\* parameters finite the rt returned is finite and at least t0.
C2_RtAtLeastT0 ==
    (pc = "ret" /\ arg.error_weight = 0 /\ AllFinite(arg.parameters)) =>
        /\ draws >= 1
        /\ isfinite(rt)
        /\ FLe(P_t0(arg.parameters), rt)

\* A call with error_weight = 0 and finite parameters that returns after an
\* earlier iteration of the loop did not end it.
C2_Witness ==
    /\ pc = "ret" /\ arg.error_weight = 0 /\ AllFinite(arg.parameters)
    /\ draws >= 2

\* C3: the choice simulate_trial returns, on either branch, is an item index
\* in [0, n_items), never the NaN set on a rejected draw; so is the choice
\* of every row of a returned table.
C3_ChoiceIsItemIndex ==
    /\ pc = "ret" => (isfinite(choice) /\ choice.n \in Items(arg.values))
    /\ pc = "done" =>
         \A j \in DOMAIN result :
            /\ isfinite(result[j].choice)
            /\ result[j].choice.n \in Items(RowArg(j).values)

\* A return from the race branch, after a rejected draw, with the second
\* item chosen.
C3_Witness ==
    /\ pc = "ret" /\ draws >= 2 /\ choice = Fin(1)
    /\ FPTs # <<>>

\* C4 as stated, for a retry bound of MaxDraws: the loop is not entered
\* again once MaxDraws draws have been made without one being accepted (the
\* trial has ended, stalled).
C4_RetriesBounded == pc = "race" => draws < MaxDraws

\* The observed row a call of predict was made for.
CallRow(c) == inp.model.data[c.trial + 1]

\* The rows of the estimates table that match a trial for one parameter:
\* the subject's, and with a dependence those of the trial's condition.
Matching(row, name) ==
    {e \in Range(inp.model.estimates) :
        /\ e.subject = row.subject
        /\ IF name \in DOMAIN inp.model.depends_on
           THEN e[inp.model.depends_on[name]] = row[inp.model.depends_on[name]]
           ELSE TRUE}

\* C5: the table predict returns has N * n_repeats rows, row group i made of
\* the rows for observed row i with repeat 0..n_repeats-1 in order; each row
\* has the columns of its observed row (and repeat), equal to the observed
\* row's except choice, rt and repeat, which hold the choice and rt the call
\* returned and the repeat index.
C5_OneRowPerTrialAndRepeat ==
    (mode = "predict" /\ pc = "done") =>
        /\ Len(result) = Len(inp.model.data) * inp.n_repeats
        /\ Len(calls) = Len(result)
        /\ \A j \in DOMAIN result :
            LET i == (j - 1) \div inp.n_repeats
                r == (j - 1) % inp.n_repeats
                row == inp.model.data[i + 1]
            IN  /\ calls[j].trial = i /\ calls[j].repeat = r
                /\ DOMAIN result[j] = DOMAIN row \cup {"repeat"}
                /\ \A col \in DOMAIN row \ {"choice", "rt", "repeat"} :
                       result[j][col] = row[col]
                /\ result[j].repeat = r
                /\ result[j].choice = calls[j].ret[1]
                /\ result[j].rt = calls[j].ret[2]

\* predict has returned four rows for two observed rows and two repeats, one
\* of them with a simulated choice that differs from the observed one.
C5_Witness ==
    /\ mode = "predict" /\ pc = "done"
    /\ Len(inp.model.data) = 2 /\ inp.n_repeats = 2 /\ Len(result) = 4
    /\ \E j \in DOMAIN result :
         result[j].choice # inp.model.data[((j - 1) \div 2) + 1].choice

\* C6: every parameter passed to simulate_trial by predict is the value of
\* the estimates rows of the trial's subject and, for a parameter with a
\* dependence, of the trial's value in the condition column; with no
\* dependence at all the trials of a subject get one parameter vector, and
\* with v depending on a condition two trials of a subject whose conditions
\* have different v estimates get different v.
C6_ParametersResolved ==
    mode = "predict" =>
        /\ \A x \in DOMAIN calls : \A p \in 1 .. 5 :
            LET c == calls[x]
                name == ParameterNames[p]
                rows == Matching(CallRow(c), name)
            IN  /\ rows # {}
                /\ IF name \in DOMAIN inp.model.depends_on
                   THEN \A e \in rows : c.arg.parameters[p] = e[name]
                   ELSE \E e \in rows : c.arg.parameters[p] = e[name]
        /\ DOMAIN inp.model.depends_on = {} =>
            \A x, y \in DOMAIN calls :
                CallRow(calls[x]).subject = CallRow(calls[y]).subject
                    => calls[x].arg.parameters = calls[y].arg.parameters
        /\ "v" \in DOMAIN inp.model.depends_on =>
            \A x, y \in DOMAIN calls :
                (/\ CallRow(calls[x]).subject = CallRow(calls[y]).subject
                 /\ \E e \in Matching(CallRow(calls[x]), "v") :
                    \E f \in Matching(CallRow(calls[y]), "v") : e.v # f.v)
                    => P_v(calls[x].arg.parameters)
                            # P_v(calls[y].arg.parameters)

\* Two trials of one subject in different conditions have been simulated
\* with different v.
C6_Witness ==
    /\ mode = "predict"
    /\ \E x, y \in DOMAIN calls :
        /\ CallRow(calls[x]).subject = CallRow(calls[y]).subject
        /\ CallRow(calls[x]).cond # CallRow(calls[y]).cond
        /\ P_v(calls[x].arg.parameters) # P_v(calls[y].arg.parameters)

\* The estimates table has no row for one of the parameters of this trial.
NoEstimate(row) == \E p \in 1 .. 5 : Matching(row, ParameterNames[p]) = {}

\* C7: an observed trial without a matching estimate makes predict fail when
\* it reaches the trial: predict raises there, never goes past the trial,
\* makes no simulate_trial call for it and appends no row for it; and no
\* call of simulate_trial is ever made with a missing parameter.
C7_MissingEstimateAborts ==
    mode = "predict" =>
        /\ \A i \in DOMAIN inp.model.data :
            NoEstimate(inp.model.data[i]) =>
                /\ loc.row_index <= i - 1
                /\ (loc.row_index = i - 1 /\ pc # "predict")
                        => (pc = "raised" /\ err = "ValueError")
                /\ \A x \in DOMAIN calls : calls[x].trial # i - 1
                /\ \A j \in DOMAIN loc.prediction :
                      ~(/\ loc.prediction[j].subject = inp.model.data[i].subject
                        /\ loc.prediction[j].trial = inp.model.data[i].trial)
                /\ pc # "done"
        /\ \A x \in DOMAIN calls : \A p \in 1 .. 5 :
              isfinite(calls[x].arg.parameters[p])

\* predict has failed at a trial without an estimate, after rows for an
\* earlier trial were generated.
C7_Witness ==
    /\ mode = "predict" /\ pc = "raised"
    /\ NoEstimate(inp.model.data[loc.row_index + 1])
    /\ Len(loc.prediction) >= 1

\* The observed response times of the subject of a call's trial.
OwnRts(c) ==
    {inp.model.data[x].rt :
        x \in {y \in DOMAIN inp.model.data :
                 inp.model.data[y].subject = CallRow(c).subject}}

\* C8: the error_range passed to simulate_trial by predict is the smallest
\* and the largest observed rt among the rows of the trial's own subject.
C8_ErrorRangeOfOwnSubject ==
    mode = "predict" =>
        \A x \in DOMAIN calls :
            LET c == calls[x]
            IN  /\ c.arg.error_range[1] \in OwnRts(c)
                /\ c.arg.error_range[2] \in OwnRts(c)
                /\ \A t \in OwnRts(c) :
                      FLe(c.arg.error_range[1], t) /\ FLe(t, c.arg.error_range[2])

\* Two trials of one subject have been simulated with the same range and a
\* trial of another subject with a different one.
C8_Witness ==
    /\ mode = "predict"
    /\ \E x, y, z \in DOMAIN calls :
        /\ calls[x].trial # calls[z].trial
        /\ CallRow(calls[x]).subject = CallRow(calls[z]).subject
        /\ CallRow(calls[x]).subject # CallRow(calls[y]).subject
        /\ calls[x].arg.error_range = calls[z].arg.error_range
        /\ calls[x].arg.error_range # calls[y].arg.error_range

\* C9: simulate_subject calls simulate_trial for (trial 0, repeat 0), (0, 1),
\* ... in that order, with the trial's values and gaze, once each; the table
\* it returns has n_trials * n_repeats rows, and the row of (t, r) holds the
\* subject, t, r, the choice and rt its call returned and the values and
\* gaze of trial t.
C9_OneCallPerTrialAndRepeat ==
    mode = "subject" =>
        /\ \A j \in DOMAIN calls :
            LET t == (j - 1) \div inp.n_repeats
                r == (j - 1) % inp.n_repeats
            IN  /\ calls[j].trial = t /\ calls[j].repeat = r
                /\ calls[j].arg.values = inp.values[t + 1]
                /\ calls[j].arg.gaze = inp.gaze[t + 1]
                /\ calls[j].arg.parameters = inp.parameters
        /\ pc = "done" =>
            /\ Len(calls) = Len(inp.values) * inp.n_repeats
            /\ Len(result) = Len(inp.values) * inp.n_repeats
            /\ \A j \in DOMAIN result :
                LET t == (j - 1) \div inp.n_repeats
                    r == (j - 1) % inp.n_repeats
                IN  /\ result[j].subject = Fin(inp.subject)
                    /\ result[j].trial = Fin(t)
                    /\ result[j].repeat = Fin(r)
                    /\ result[j].choice = calls[j].ret[1]
                    /\ result[j].rt = calls[j].ret[2]
                    /\ \A i \in Items(inp.values[t + 1]) :
                        /\ result[j][ValueCol(i)] = Fin(At(inp.values[t + 1], i))
                        /\ result[j][GazeCol(i)] = Fin(At(inp.gaze[t + 1], i))

\* simulate_subject has returned the table of two trials with two repeats.
C9_Witness ==
    /\ mode = "subject" /\ pc = "done"
    /\ Len(inp.values) = 2 /\ inp.n_repeats = 2 /\ Len(result) = 4

\* The arguments of the simulate_trial call that simulate_subject or predict
\* makes at its current position, computed from the inputs alone.
CallFromInputs ==
    IF mode = "subject" THEN SubjectArg(inp, loc.trial)
    ELSE LET row == inp.model.data[loc.row_index + 1]
         IN  [parameters |-> ResolveParameters(inp.model, row),
              values |-> RowValues(row, inp.model.n_items),
              gaze |-> RowGaze(row, inp.model.n_items),
              boundary |-> inp.boundary,
              error_weight |-> inp.error_weight,
              error_range |-> ErrorRange(inp.model.data, row.subject)]

\* C10: no step of simulate_subject or predict changes the inputs (the
\* model's data, estimates, dependency map and item count among them), and
\* every simulate_trial call starts with fresh locals and with arguments
\* that are those the inputs give for the trial, whatever the earlier trials
\* were and returned.
C10_NoHiddenState ==
    [][/\ inp' = inp
       /\ (pc' = "trial" /\ mode # "trial") =>
            /\ rt' = NaN /\ choice' = NaN /\ FPTs' = <<>> /\ draws' = 0
            /\ arg' = CallFromInputs]_vars

\* predict starts the simulation of a trial after rows of an earlier trial
\* were appended.
C10_Witness ==
    /\ mode = "predict" /\ pc = "trial"
    /\ loc.row_index >= 1 /\ Len(loc.prediction) >= 1

\* The error branch was taken by the call in progress: it returned without
\* an iteration of the race loop.
ErrorBranchTaken == pc = "ret" /\ draws = 0

\* x lies between the bounds of error_range.
WithinRange(x, range) == FLe(range[1], x) /\ FLe(x, range[2])

\* C11: a call of simulate_trial with error_weight = 1 always takes the
\* error branch, and a call that takes the error branch returns without an
\* iteration of the race loop (no draw counted, no first-passage time
\* sampled), with a choice that is an item index in [0, n_items) and an rt
\* that lies within error_range, t0 not added to it (an error_range with
\* missing bounds gives a missing rt).
C11_ErrorBranch ==
    [][/\ (pc = "trial" /\ arg.error_weight = 2) => pc' = "ret"
       /\ (pc = "trial" /\ pc' = "ret") =>
            /\ draws' = 0 /\ FPTs' = <<>>
            /\ isfinite(choice') /\ choice'.n \in Items(arg.values)
            /\ IF \E b \in Range(arg.error_range) : isnan(b)
               THEN isnan(rt')
               ELSE WithinRange(rt', arg.error_range)]_vars

\* A three-item call with error_weight = 0.5 and t0 = 2 that took the error
\* branch: the last item chosen, the rt = 1 inside error_range = (0, 2),
\* where rt + t0 would lie outside it.
C11_Witness ==
    /\ ErrorBranchTaken
    /\ arg.error_weight = 1
    /\ Len(arg.values) = 3 /\ choice = Fin(2)
    /\ arg.error_range = <<Fin(0), Fin(2)>>
    /\ P_t0(arg.parameters) = Fin(2)
    /\ rt = Fin(1)

\* C12: every iteration of the race loop that draws (the sampler not
\* raising) holds one first-passage time per item; it is accepted (choice
\* set to an index) exactly when the minimum of these times is finite and
\* >= 0, t0 playing no part in the test; on acceptance choice is the lowest
\* index holding the minimum and rt is that minimum plus t0, otherwise rt
\* and choice are NaN; the loop is left exactly when rt is not NaN, so that
\* what is returned comes from an accepted iteration alone.
C12_RaceIteration ==
    [][(pc = "race" /\ pc' # "raised") =>
         LET m == FMinSet(Range(FPTs'))
             accepted == isfinite(m) /\ m.n >= 0
         IN  /\ Len(FPTs') = Len(arg.values)
             /\ (isfinite(choice') <=> accepted)
             /\ accepted =>
                  /\ choice'.n \in Items(FPTs')
                  /\ At(FPTs', choice'.n) = m
                  /\ \A j \in 0 .. (choice'.n - 1) : At(FPTs', j) # m
                  /\ rt' = FAdd(m, P_t0(arg.parameters))
             /\ ~accepted => (isnan(rt') /\ isnan(choice'))
             /\ (pc' = "ret" <=> ~isnan(rt'))
             /\ pc' = "ret" => accepted]_vars

\* A three-item call returning after a rejected draw, from a draw whose
\* minimum 0 is held by the second and the third item: the second is chosen
\* and rt = 0 + t0 with t0 = 2.
C12_Witness ==
    /\ pc = "ret" /\ draws >= 2
    /\ FPTs = <<Fin(1), Fin(0), Fin(0)>>
    /\ choice = Fin(1)
    /\ P_t0(arg.parameters) = Fin(2) /\ rt = Fin(2)

\* The call in progress returned from the race branch.
RaceBranchReturned == pc = "ret" /\ draws >= 1

MakeRCalled ==
    /\ pc \in {"race", "ret"} /\ draws >= 1
    /\ isfinite(P_gamma(arg.parameters))

\* gaze_i * values_i + (1 - gaze_i) * gamma * values_i in exact arithmetic,
\* in quarters (gaze and gamma being given in halves).
ExactA(a, i) ==
    At(a.gaze, i) * At(a.values, i) * 2
    + (2 - At(a.gaze, i)) * P_gamma(a.parameters).n * At(a.values, i)

\* A_i - max over j # i of A_j in exact arithmetic.
ExactRStar(a, i) ==
    LET others == {ExactA(a, j) : j \in Items(a.values) \ {i}}
    IN  ExactA(a, i) - (CHOOSE x \in others : \A y \in others : y <= x)

\* A rate v / (1 + exp(-logit)) that is v / 2: its logit is 0.
HalfOfV(rate, v) == rate = [num |-> v, logit |-> Fin(0)]

\* C14: for finite parameters, the R_star[i] make_R computes for every item
\* of a trial of two or three items is A_i minus the largest A_j of the
\* other items, with A_i = gaze_i*values_i + (1 - gaze_i)*gamma*values_i,
\* and the rate of item i is the logistic of tau times it, scaled by v; no
\* two items have R_star > 0, and an item that has is strictly the best;
\* for two items of equal value and equal gaze R_star is 0 for both and
\* both rates are v / 2.
C14_RelativeEvidence ==
    MakeRCalled =>
        LET a == arg
            v == P_v(a.parameters)
            tau == P_tau(a.parameters)
            gamma == P_gamma(a.parameters)
            R == make_R(v, tau, gamma, a.values, a.gaze)
        IN  /\ \A i \in Items(a.values) :
                 /\ RStar(gamma, a.values, a.gaze, i) = Fin(ExactRStar(a, i))
                 /\ At(R, i) = [num |-> v,
                                logit |-> FMul(tau, Fin(ExactRStar(a, i)))]
                 /\ RStar(gamma, a.values, a.gaze, i).n > 0 =>
                      \A j \in Items(a.values) \ {i} :
                         /\ ExactA(a, j) < ExactA(a, i)
                         /\ RStar(gamma, a.values, a.gaze, j).n < 0
            /\ (/\ Len(a.values) = 2
                /\ At(a.values, 0) = At(a.values, 1)
                /\ At(a.gaze, 0) = At(a.gaze, 1)) =>
                 \A i \in Items(a.values) :
                    /\ RStar(gamma, a.values, a.gaze, i) = Fin(0)
                    /\ isfinite(tau) => HalfOfV(At(R, i), v)

\* A three-item call that has drawn, with values (3, 1, 2) and A = (12, 4,
\* 8) quarters: the first item, the best, is compared with the third, the
\* best of the others (R_star = 4, where the global maximum would give 0),
\* and the two others with the first.
C14_Witness ==
    /\ MakeRCalled
    /\ arg.values = <<3, 1, 2>>
    /\ P_gamma(arg.parameters) = Fin(One)
    /\ RStar(Fin(One), arg.values, arg.gaze, 0) = Fin(4)
    /\ RStar(Fin(One), arg.values, arg.gaze, 1) = Fin(-8)
    /\ RStar(Fin(One), arg.values, arg.gaze, 2) = Fin(-4)

\* A first-passage time that is missing or negative.
InvalidTime(x) == isnan(x) \/ FLt(x, Fin(0))

\* C15: the draw a return from the race branch rests on holds no NaN and no
\* negative time, for the chosen item or any other; a draw that holds one is
\* rejected whole (rt and choice NaN, the loop entered again, where every
\* item is drawn anew). A time of +inf for an item that is not chosen does
\* not reject the draw (the state C15_Witness describes).
C15_AcceptedDrawTimes ==
    /\ RaceBranchReturned => \A x \in Range(FPTs) : ~InvalidTime(x)
    /\ (/\ pc \in {"race", "ret"}
        /\ \E x \in Range(FPTs) : InvalidTime(x)) =>
           (pc = "race" /\ isnan(rt) /\ isnan(choice))

\* A return from the race branch, after a rejected draw, on a draw with
\* +inf for the first item and 1 for the second, the second chosen.
C15_Witness ==
    /\ RaceBranchReturned /\ draws >= 2
    /\ FPTs = <<PosInf, Fin(1)>>
    /\ choice = Fin(1)
    /\ rt = FAdd(Fin(1), P_t0(arg.parameters))
====
